---- MODULE Spec2Model ----
(***************************************************************************)
(* Floww (src/app.py): the AI-response-to-structured-data pipeline of the  *)
(* Streamlit script.  Four parts of the script are modelled, each with its *)
(* own specification over the shared variables:                            *)
(*   Spec        the Workflow tab: Generate Workflow, Re-Render Diagram,   *)
(*               the session fields wf_json / stages / tips, PPTX deck     *)
(*   SpecCRM     the CRM playbook loop (one provider call per CSV row)     *)
(*   SpecPricing the pricing normalisation of Generate Proposal and the    *)
(*               table / PDF row renderers that read its result            *)
(*   SpecPDF     the paginated PDF layout (add_text and its callers)       *)
(*                                                                         *)
(* Text is modelled as a sequence of lexical tokens: the braces and        *)
(* brackets of JSON, the "workflow" key, one token per "stage": <name> and *)
(* per "tip": <text> member, and a prose token for anything that holds no  *)
(* brace.  The regular expression and the parser work on these tokens.     *)
(***************************************************************************)
EXTENDS Integers, Sequences, FiniteSets, TLC

VARIABLES
    session,      \* st.session_state: a dict, keys among wf_json/stages/tips
    pptx_ok,      \* sidebar checkbox "Enable PPTX Export"
    op,           \* which script run produced the current outputs
    raw,          \* resp.choices[0].message.content of this run
    match,        \* match.group(0) of this run (<<>> when there was none)
    outcome,      \* how the run ended
    shown,        \* what st.error / st.code put on the page in this run
    tail,         \* how the rest of the script run (diagram, PPTX) went
    deck,         \* slides of the Presentation built in this run
    crm_rows,     \* df of the uploaded CRM CSV: one lead per row
    crm_i,        \* number of rows the loop has consumed
    play,         \* the list `play` of the loop
    crm_status,   \* position of the CRM block
    playbook,     \* what st.dataframe(pd.DataFrame(play)) displayed
    pricing_in,   \* proposal.pricing as parsed from the response
    pricing,      \* proposal.pricing after the normalisation block
    prop_status,  \* position in the Generate Proposal handler
    y,            \* vertical cursor of the PDF export
    pdf_pc,       \* position in the PDF export
    sec,          \* index of the section being laid out
    rows_left,    \* pricing rows still to be laid out
    pages,        \* number of c.showPage() calls
    low_draw,     \* lowest y_pos handed to c.drawString so far
    ret_ok        \* every add_text so far returned a cursor within [60, h-40]

wfVars    == <<session, pptx_ok, op, raw, match, outcome, shown, tail, deck>>
crmVars   == <<crm_rows, crm_i, play, crm_status, playbook>>
priceVars == <<pricing_in, pricing, prop_status>>
pdfVars   == <<y, pdf_pc, sec, rows_left, pages, low_draw, ret_ok>>
vars      == <<wfVars, crmVars, priceVars, pdfVars>>

----------------------------------------------------------------------------
(* Bounds of the model *)

MaxStages == 2      \* stages per workflow payload
MaxWrapped == 1     \* stages of a payload that stands among other text
MaxRows == 3        \* rows of the CRM CSV
MaxItems == 2       \* entries of a pricing mapping or list
MaxLines == 50      \* lines of one section text of the proposal
MaxPdfRows == 2     \* pricing rows laid out in the PDF

----------------------------------------------------------------------------
(* Tokens and texts *)

LB == "{"
RB == "}"
LSQ == "["
RSQ == "]"
WF == "workflow:"
PROSE == "prose"

\* the "stage": <name> members and the names they carry
StageKey == ("stage:a" :> "a") @@ ("stage:b" :> "b")
\* the "tip": <text> members and the texts they carry
TipKey == ("tip:t1" :> "t1") @@ ("tip:t2" :> "t2")

StageTok(name) == CHOOSE k \in DOMAIN StageKey : StageKey[k] = name
TipTok(tip) == CHOOSE k \in DOMAIN TipKey : TipKey[k] = tip

\* StageModel: the objects the bounded payloads are built from
StageModel ==
    { [stage |-> "a", tip |-> "t1"],
      [stage |-> "a", tip |-> "t2"],
      [stage |-> "b", tip |-> "t1"] }

RECURSIVE SeqsUpTo(_, _)
SeqsUpTo(S, n) ==
    IF n = 0 THEN { <<>> }
    ELSE LET shorter == SeqsUpTo(S, n - 1)
         IN  shorter \cup { Append(s, x) : s \in shorter, x \in S }

\* the values of WorkflowModel.workflow, up to the bound
Workflows == SeqsUpTo(StageModel, MaxStages)

RECURSIVE SerStages(_)
SerStages(w) ==
    IF w = <<>> THEN <<>>
    ELSE <<LB, StageTok(Head(w).stage), TipTok(Head(w).tip), RB>> \o SerStages(Tail(w))

\* the JSON text {"workflow":[{"stage":..,"tip":..},..]} of a workflow
Ser(w) == <<LB, WF, LSQ>> \o SerStages(w) \o <<RSQ, RB>>

\* payloads of the right outer shape that fail validation
BadPayloads ==
    { <<LB, WF, LSQ, LB, "stage:a", RB, RSQ, RB>>,    \* a stage without a tip
      <<LB, RB>> }                                     \* no "workflow" field

Payloads == { Ser(w) : w \in Workflows } \cup BadPayloads

\* the payloads that the bounded texts wrap in prose or follow by more text
WrappedPayloads == { Ser(w) : w \in SeqsUpTo(StageModel, MaxWrapped) } \cup BadPayloads

\* responses without any brace-delimited region
NoRegionTexts == { <<>>, <<PROSE>>, <<LB>>, <<RB, PROSE, LB>> }

\* the texts a response or an edit of the JSON box is drawn from: a payload
\* alone, after prose, or followed by prose and a second object {}; or a text
\* without a region
Text ==
    Payloads
    \cup { <<PROSE>> \o p : p \in WrappedPayloads }
    \cup { p \o <<PROSE, LB, RB>> : p \in WrappedPayloads }
    \cup NoRegionTexts

----------------------------------------------------------------------------
(* Response Extractor: re.search(r"\{.*\}", raw, re.S) *)

Positions(text, tok) == { i \in 1..Len(text) : text[i] = tok }
Min(S) == CHOOSE m \in S : \A o \in S : m <= o
Max(S) == CHOOSE m \in S : \A o \in S : m >= o

\* a variant of Search whose pattern lost its closing brace, r"\{.*"
SearchNoClose(text) ==
    LET opens == Positions(text, LB)
    IN  IF opens = {} THEN [found |-> FALSE, group |-> <<>>]
        ELSE [found |-> TRUE, group |-> SubSeq(text, Min(opens), Len(text))]

\* The match starts at the leftmost "{" that has a "}" somewhere after it and,
\* ".*" being greedy and DOTALL, runs to the last "}" of the text.
Search(text) ==
    LET opens  == Positions(text, LB)
        closes == Positions(text, RB)
        starts == { i \in opens : \E j \in closes : j > i }
    IN  IF starts = {} THEN [found |-> FALSE, group |-> <<>>]
        ELSE [found |-> TRUE, group |-> SubSeq(text, Min(starts), Max(closes))]

----------------------------------------------------------------------------
(* Schema Validator: WorkflowModel.parse_raw *)

Invalid == [ok |-> FALSE, workflow |-> <<>>]

\* the elements of the "workflow" array, each validated as a StageModel;
\* done holds the stages validated so far
RECURSIVE ParseStagesFrom(_, _)
ParseStagesFrom(t, done) ==
    IF t = <<>> THEN [ok |-> TRUE, workflow |-> done]
    ELSE IF /\ Len(t) >= 4
            /\ t[1] = LB
            /\ t[2] \in DOMAIN StageKey
            /\ t[3] \in DOMAIN TipKey
            /\ t[4] = RB
         THEN ParseStagesFrom(SubSeq(t, 5, Len(t)),
                              Append(done, [stage |-> StageKey[t[2]], tip |-> TipKey[t[3]]]))
         ELSE Invalid

ParseStages(t) == ParseStagesFrom(t, <<>>)

\* ok is FALSE where parse_raw raises ValidationError (bad JSON or bad shape)
ParseRaw(text) ==
    IF /\ Len(text) >= 5
       /\ SubSeq(text, 1, 3) = <<LB, WF, LSQ>>
       /\ SubSeq(text, Len(text) - 1, Len(text)) = <<RSQ, RB>>
    THEN ParseStages(SubSeq(text, 4, Len(text) - 2))
    ELSE Invalid

----------------------------------------------------------------------------
(* The session fields derived from a validated model *)

\* [s.stage for s in wf.workflow]
StageNames(w) == [i \in 1..Len(w) |-> w[i].stage]

\* {s.stage: s.tip for s in wf.workflow}: a later entry of the same key
\* replaces the earlier one
TipsDict(w) ==
    [n \in { w[i].stage : i \in 1..Len(w) } |->
        w[Max({ i \in 1..Len(w) : w[i].stage = n })].tip]

Has(sess, key) == key \in DOMAIN sess

\* a variant of Store that leaves the tips of the previous model in place
StoreKeepsTips(sess, text, w) ==
    ("wf_json" :> text) @@ ("stages" :> StageNames(w))
        @@ ("tips" :> (IF Has(sess, "tips") THEN sess["tips"] ELSE TipsDict(w)))

\* the three assignments to st.session_state after a successful validation
Store(sess, text, w) ==
    ("wf_json" :> text) @@ ("stages" :> StageNames(w)) @@ ("tips" :> TipsDict(w))

\* a variant of ReRenderSession that assigns wf_json before parsing
ReRenderStoresFirst(sess, new_json) ==
    LET wf == ParseRaw(new_json)
    IN  IF wf.ok THEN Store(sess, new_json, wf.workflow)
        ELSE ("wf_json" :> new_json) @@ sess

\* the try / except block of Re-Render Diagram: parse_raw raises before any
\* assignment, and the bare except swallows the error
ReRenderSession(sess, new_json) ==
    LET wf == ParseRaw(new_json)
    IN  IF wf.ok THEN Store(sess, new_json, wf.workflow) ELSE sess

----------------------------------------------------------------------------
(* What a run puts on the page *)

Error(msg) == [kind |-> "error", msg |-> msg, text |-> <<>>]
Code(text) == [kind |-> "code", msg |-> "", text |-> text]

----------------------------------------------------------------------------
(* The rest of a script run: Mermaid diagram call, PPTX deck *)

TitleSlide == [title |-> "Floww Playbook", body |-> ""]

\* the Presentation: a title slide, then one slide per entry of 'stages'
Deck(sess) ==
    <<TitleSlide>> \o
    [i \in 1..Len(sess["stages"]) |->
        [title |-> sess["stages"][i], body |-> sess["tips"][sess["stages"][i]]]]

\* st.session_state['tips'][s] raises KeyError for a name that is no key
TipLookupFails(sess) ==
    \/ ~Has(sess, "tips")
    \/ \E i \in 1..Len(sess["stages"]) : sess["stages"][i] \notin DOMAIN sess["tips"]

\* diagram_ok: whether the diagram's provider call returns
RestOfRun(sess, pptx, diagram_ok) ==
    IF ~Has(sess, "stages") THEN [tail |-> "no_stages", deck |-> <<>>]
    ELSE IF ~diagram_ok THEN [tail |-> "diagram_error", deck |-> <<>>]
    ELSE IF ~pptx THEN [tail |-> "rendered", deck |-> <<>>]
    ELSE IF TipLookupFails(sess) THEN [tail |-> "key_error", deck |-> <<>>]
    ELSE [tail |-> "rendered", deck |-> Deck(sess)]

----------------------------------------------------------------------------
(* Workflow tab: the script runs *)

\* Generate Workflow pressed and the provider call raised
GenerateProviderError ==
    /\ op' = "generate"
    /\ raw' = <<>>
    /\ match' = <<>>
    /\ outcome' = "provider_error"
    /\ shown' = <<>>
    /\ tail' = "skipped"
    /\ deck' = <<>>
    /\ UNCHANGED <<session, pptx_ok>>

\* Generate Workflow pressed and the provider returned text r
Generate(r, diagram_ok) ==
    LET m  == Search(r)
        wf == ParseRaw(m.group)
    IN  /\ op' = "generate"
        /\ raw' = r
        /\ match' = m.group
        /\ IF ~m.found
           THEN /\ outcome' = "extraction_failure"
                /\ shown' = <<Error("AI did not return JSON"), Code(r)>>
                /\ tail' = "skipped"
                /\ deck' = <<>>
                /\ UNCHANGED session
           ELSE IF ~wf.ok
           THEN /\ outcome' = "validation_failure"
                /\ shown' = <<Error("Invalid JSON"), Code(m.group), Error("ValidationError")>>
                /\ tail' = "skipped"
                /\ deck' = <<>>
                /\ UNCHANGED session
           ELSE LET stored == Store(session, m.group, wf.workflow)
                    rest   == RestOfRun(stored, pptx_ok, diagram_ok)
                IN  /\ outcome' = "stored"
                    /\ shown' = <<>>
                    /\ session' = stored
                    /\ tail' = rest.tail
                    /\ deck' = rest.deck
        /\ UNCHANGED pptx_ok

\* Re-Render Diagram pressed with new_json in the JSON box
ReRender(new_json, diagram_ok) ==
    /\ Has(session, "wf_json")
    /\ op' = "rerender"
    /\ raw' = <<>>
    /\ match' = <<>>
    /\ LET after == ReRenderSession(session, new_json)
           rest  == RestOfRun(after, pptx_ok, diagram_ok)
       IN  /\ session' = after
           /\ tail' = rest.tail
           /\ deck' = rest.deck
    /\ IF ParseRaw(new_json).ok
       THEN outcome' = "stored" /\ shown' = <<>>
       ELSE outcome' = "validation_failure" /\ shown' = <<Error("Invalid JSON")>>
    /\ UNCHANGED pptx_ok

\* a run with no button pressed (a sidebar widget changed)
Rerun(pptx, diagram_ok) ==
    /\ pptx_ok' = pptx
    /\ op' = "rerun"
    /\ raw' = <<>>
    /\ match' = <<>>
    /\ outcome' = "none"
    /\ shown' = <<>>
    /\ LET rest == RestOfRun(session, pptx, diagram_ok)
       IN  tail' = rest.tail /\ deck' = rest.deck
    /\ UNCHANGED session

NoSession == [k \in {} |-> <<>>]

InitWF ==
    /\ session = NoSession
    /\ pptx_ok = TRUE
    /\ op = "init"
    /\ raw = <<>>
    /\ match = <<>>
    /\ outcome = "none"
    /\ shown = <<>>
    /\ tail = "no_stages"
    /\ deck = <<>>

----------------------------------------------------------------------------
(* CRM playbook loop *)

Leads == { "lead1", "lead2" }
Suggestions == { "call", "mail" }

\* the data frames pd.read_csv can return, up to the bound
CrmFiles == SeqsUpTo(Leads, MaxRows)

IdleCRM ==
    /\ crm_rows = <<>>
    /\ crm_i = 0
    /\ play = <<>>
    /\ crm_status = "idle"
    /\ playbook = <<>>

\* a run reaches the CRM block: df = pd.read_csv(crm_file); play = []
CRMStart(df) ==
    /\ Has(session, "stages")
    /\ crm_status \in { "idle", "shown", "exception" }
    /\ crm_rows' = df
    /\ crm_i' = 0
    /\ play' = <<>>
    /\ playbook' = <<>>
    /\ crm_status' = "loop"

\* one iteration whose provider call returns suggestion s
CRMCallReturns(s) ==
    /\ crm_status = "loop"
    /\ crm_i < Len(crm_rows)
    /\ play' = Append(play, [lead |-> crm_rows[crm_i + 1], suggestion |-> s])
    /\ crm_i' = crm_i + 1
    /\ UNCHANGED <<crm_rows, crm_status, playbook>>

\* one iteration whose provider call raises: nothing in the loop catches it,
\* so the exception leaves the loop and ends the script run
CRMCallRaises ==
    /\ crm_status = "loop"
    /\ crm_i < Len(crm_rows)
    /\ crm_status' = "exception"
    /\ UNCHANGED <<crm_rows, crm_i, play, playbook>>

\* after the last row: st.dataframe(pd.DataFrame(play))
CRMDisplay ==
    /\ crm_status = "loop"
    /\ crm_i = Len(crm_rows)
    /\ playbook' = play
    /\ crm_status' = "shown"
    /\ UNCHANGED <<crm_rows, crm_i, play>>

----------------------------------------------------------------------------
(* Generate Proposal: pricing normalisation and the pricing renderers *)

Items == { "Integration", "Training" }

EmptyDict == [k \in {} |-> 0]

\* an optional member of a JSON object: o is {} (absent) or {value}
Member(key, o) == IF o = {} THEN EmptyDict ELSE (key :> (CHOOSE v \in o : TRUE))
Opt(S) == { {} } \cup { {v} : v \in S }

\* detail objects of a pricing mapping, with either spelling of each field
Details ==
    { Member("qty", q) @@ Member("Qty", q2) @@ Member("unit", u) @@ Member("Unit", u2)
        @@ Member("price", p) @@ Member("Unit Price", p2) :
        q \in Opt({0, 2}), q2 \in Opt({3}), u \in Opt({"Lot"}), u2 \in Opt({"Yr"}),
        p \in Opt({0, 500}), p2 \in Opt({100}) }

\* an entry of a pricing mapping: name -> detail object, or name -> a number
MappingEntries ==
    { [item |-> i, isdict |-> TRUE, details |-> d] : i \in Items, d \in Details }
    \cup { [item |-> i, isdict |-> FALSE, details |-> EmptyDict] : i \in Items }

\* an element of a pricing list: any of item, qty, unit, price may be missing
ListObjects ==
    { Member("item", i) @@ Member("qty", q) @@ Member("unit", u) @@ Member("price", p) :
        i \in Opt(Items), q \in Opt({2}), u \in Opt({"Lot"}), p \in Opt({500}) }

DistinctKeys(es) == \A i, j \in 1..Len(es) : i # j => es[i].item # es[j].item

\* the values proposal.pricing takes after ProposalModel.parse_raw
PricingInputs ==
    { [shape |-> "mapping", entries |-> es] :
        es \in { e \in SeqsUpTo(MappingEntries, MaxItems) : DistinctKeys(e) } }
    \cup { [shape |-> "list", entries |-> es] : es \in SeqsUpTo(ListObjects, MaxItems) }

\* details.get(k1) or details.get(k2) or dflt, for number-valued fields:
\* None and 0 are both falsy
GetOrNum(d, k1, k2, dflt) ==
    IF k1 \in DOMAIN d /\ d[k1] # 0 THEN d[k1]
    ELSE IF k2 \in DOMAIN d /\ d[k2] # 0 THEN d[k2]
    ELSE dflt

\* the same for text-valued fields: None and "" are both falsy
GetOrStr(d, k1, k2, dflt) ==
    IF k1 \in DOMAIN d /\ d[k1] # "" THEN d[k1]
    ELSE IF k2 \in DOMAIN d /\ d[k2] # "" THEN d[k2]
    ELSE dflt

\* the dict appended to `normalized` for one entry with dict details
LineItem(e) ==
    ("item" :> e.item)
        @@ ("qty" :> GetOrNum(e.details, "qty", "Qty", 1))
        @@ ("unit" :> GetOrStr(e.details, "unit", "Unit", ""))
        @@ ("price" :> GetOrNum(e.details, "price", "Unit Price", 0))

\* the loop over proposal.pricing.items(): entries whose details are no dict
\* are skipped
RECURSIVE NormalizedItems(_)
NormalizedItems(es) ==
    IF es = <<>> THEN <<>>
    ELSE (IF Head(es).isdict THEN <<LineItem(Head(es))>> ELSE <<>>)
         \o NormalizedItems(Tail(es))

\* the normalisation block: only a dict-shaped pricing is rewritten
NormalizePricing(p) ==
    IF p.shape = "mapping" THEN NormalizedItems(p.entries) ELSE p.entries

\* columns of pd.DataFrame(proposal.pricing): the union of the rows' keys
Columns(rows) == UNION { DOMAIN rows[i] : i \in 1..Len(rows) }

\* the PDF loop reads row.item, row.qty, row.unit, row.price of every row
RenderPricing(rows) ==
    IF rows # <<>> /\ ~({"item", "qty", "unit", "price"} \subseteq Columns(rows))
    THEN "attribute_error"
    ELSE "rendered"

IdlePricing ==
    /\ pricing_in = [shape |-> "list", entries |-> <<>>]
    /\ pricing = <<>>
    /\ prop_status = "idle"

InitPricing ==
    /\ pricing_in \in PricingInputs
    /\ pricing = <<>>
    /\ prop_status = "parsed"

\* the handler from the normalisation block to the end of the PDF rows
NormalizeAndRender ==
    /\ prop_status = "parsed"
    /\ pricing' = NormalizePricing(pricing_in)
    /\ prop_status' = RenderPricing(pricing')
    /\ UNCHANGED pricing_in

----------------------------------------------------------------------------
(* PDF export: add_text and the layout that calls it *)

PageH == 792        \* h of `w, h = letter`
TopMargin == 40
Leading == 14
Threshold == 60
TitleGap == 25
HeadGap == 5
SecGap == 10
NumSections == 4

PageTop == PageH - TopMargin

\* the loop of add_text with n lines still to draw: the cursor, the number of
\* showPage calls so far and the lowest position drawn at so far
RECURSIVE add_text_loop(_, _, _, _)
add_text_loop(n, y_pos, breaks, low) ==
    IF n = 0 THEN [y |-> y_pos, breaks |-> breaks, low |-> low]
    ELSE add_text_loop(n - 1,
                       IF y_pos - Leading < Threshold THEN PageTop ELSE y_pos - Leading,
                       IF y_pos - Leading < Threshold THEN breaks + 1 ELSE breaks,
                       IF y_pos < low THEN y_pos ELSE low)

\* add_text for a text of n >= 1 lines starting at y_pos
add_text(n, y_pos) == add_text_loop(n, y_pos, 0, PageH)

InRange(v) == Threshold <= v /\ v <= PageTop

\* the bookkeeping of one add_text call whose result is r
Laid(r) ==
    /\ pages' = pages + r.breaks
    /\ low_draw' = IF r.low < low_draw THEN r.low ELSE low_draw
    /\ ret_ok' = (ret_ok /\ InRange(r.y))

IdlePDF ==
    /\ y = PageTop
    /\ pdf_pc = "idle"
    /\ sec = 0
    /\ rows_left = 0
    /\ pages = 0
    /\ low_draw = PageH
    /\ ret_ok = TRUE

InitPDF ==
    /\ y = PageTop
    /\ pdf_pc = "title"
    /\ sec = 0
    /\ rows_left = 0
    /\ pages = 0
    /\ low_draw = PageH
    /\ ret_ok = TRUE

\* c.drawString(40, y, proposal.title); y -= 25
DrawTitle ==
    /\ pdf_pc = "title"
    /\ low_draw' = y
    /\ y' = y - TitleGap
    /\ sec' = 1
    /\ pdf_pc' = "heading"
    /\ UNCHANGED <<rows_left, pages, ret_ok>>

\* y = add_text(<section heading>, y, 40); y -= 5
SectionHeading ==
    /\ pdf_pc = "heading"
    /\ Laid(add_text(1, y))
    /\ y' = add_text(1, y).y - HeadGap
    /\ pdf_pc' = "body"
    /\ UNCHANGED <<sec, rows_left>>

\* y = add_text(getattr(proposal, sec), y, 50); y -= 10, for a text of n lines
SectionBody(n) ==
    /\ pdf_pc = "body"
    /\ Laid(add_text(n, y))
    /\ y' = add_text(n, y).y - SecGap
    /\ sec' = sec + 1
    /\ pdf_pc' = IF sec = NumSections THEN "pricing" ELSE "heading"
    /\ UNCHANGED rows_left

\* y = add_text("Pricing:", y, 40); y -= 5, before a table of k rows
PricingHeading(k) ==
    /\ pdf_pc = "pricing"
    /\ Laid(add_text(1, y))
    /\ y' = add_text(1, y).y - HeadGap
    /\ rows_left' = k
    /\ pdf_pc' = "rows"
    /\ UNCHANGED sec

\* y = add_text(line, y, 50) for one pricing row
PricingRow ==
    /\ pdf_pc = "rows"
    /\ rows_left > 0
    /\ Laid(add_text(1, y))
    /\ y' = add_text(1, y).y
    /\ rows_left' = rows_left - 1
    /\ UNCHANGED <<sec, pdf_pc>>

\* add_text("Grand Total: ...", y, 50); c.save()
GrandTotal ==
    /\ pdf_pc = "rows"
    /\ rows_left = 0
    /\ Laid(add_text(1, y))
    /\ pdf_pc' = "saved"
    /\ UNCHANGED <<y, sec, rows_left>>

----------------------------------------------------------------------------
(* Specifications *)

IdleWF == InitWF

\* a session in which a workflow has been generated
StoredWF ==
    /\ session = Store(NoSession, Ser(<<[stage |-> "a", tip |-> "t1"]>>),
                       <<[stage |-> "a", tip |-> "t1"]>>)
    /\ pptx_ok = TRUE
    /\ op = "generate"
    /\ raw = Ser(<<[stage |-> "a", tip |-> "t1"]>>)
    /\ match = raw
    /\ outcome = "stored"
    /\ shown = <<>>
    /\ tail = "rendered"
    /\ deck = Deck(session)

Init == InitWF /\ IdleCRM /\ IdlePricing /\ IdlePDF

Next ==
    \/ GenerateProviderError /\ UNCHANGED <<crmVars, priceVars, pdfVars>>
    \/ \E r \in Text, d \in BOOLEAN :
          Generate(r, d) /\ UNCHANGED <<crmVars, priceVars, pdfVars>>
    \/ \E t \in Text, d \in BOOLEAN :
          ReRender(t, d) /\ UNCHANGED <<crmVars, priceVars, pdfVars>>
    \/ \E p \in BOOLEAN, d \in BOOLEAN :
          Rerun(p, d) /\ UNCHANGED <<crmVars, priceVars, pdfVars>>

Spec == Init /\ [][Next]_vars

InitCRM == StoredWF /\ IdleCRM /\ IdlePricing /\ IdlePDF

NextCRM ==
    \/ \E df \in CrmFiles : CRMStart(df) /\ UNCHANGED <<wfVars, priceVars, pdfVars>>
    \/ \E s \in Suggestions : CRMCallReturns(s) /\ UNCHANGED <<wfVars, priceVars, pdfVars>>
    \/ CRMCallRaises /\ UNCHANGED <<wfVars, priceVars, pdfVars>>
    \/ CRMDisplay /\ UNCHANGED <<wfVars, priceVars, pdfVars>>

SpecCRM == InitCRM /\ [][NextCRM]_vars

InitPrice == IdleWF /\ IdleCRM /\ InitPricing /\ IdlePDF

NextPrice == NormalizeAndRender /\ UNCHANGED <<wfVars, crmVars, pdfVars>>

SpecPricing == InitPrice /\ [][NextPrice]_vars

InitLayout == IdleWF /\ IdleCRM /\ IdlePricing /\ InitPDF

NextPDF ==
    \/ DrawTitle /\ UNCHANGED <<wfVars, crmVars, priceVars>>
    \/ SectionHeading /\ UNCHANGED <<wfVars, crmVars, priceVars>>
    \/ \E n \in 1..MaxLines : SectionBody(n) /\ UNCHANGED <<wfVars, crmVars, priceVars>>
    \/ \E k \in 0..MaxPdfRows : PricingHeading(k) /\ UNCHANGED <<wfVars, crmVars, priceVars>>
    \/ PricingRow /\ UNCHANGED <<wfVars, crmVars, priceVars>>
    \/ GrandTotal /\ UNCHANGED <<wfVars, crmVars, priceVars>>

SpecPDF == InitLayout /\ [][NextPDF]_vars

----------------------------------------------------------------------------
(* Properties *)

SessionKeys == { "wf_json", "stages", "tips" }

\* the model that validating the stored payload yields
StoredModel == ParseRaw(session["wf_json"])

\* C1: after a successful Generate Workflow or Re-Render of a payload with
\* N >= 1 stages, 'stages' holds the N names in source order and the tip
\* looked up by the name of stage i is the tip the payload gives stage i,
\* also when two stages share a name.
C1_TipLookupReturnsSuppliedTip ==
    (outcome = "stored" /\ Len(StoredModel.workflow) >= 1) =>
        LET w == StoredModel.workflow
        IN  /\ Len(session["stages"]) = Len(w)
            /\ \A i \in 1..Len(w) : session["stages"][i] = w[i].stage
            /\ \A i \in 1..Len(w) : session["tips"][w[i].stage] = w[i].tip

\* C2: a run whose schema validation fails (Generate Workflow or Re-Render
\* Diagram) leaves wf_json, stages and tips exactly as they were; the session
\* changes only in a run that validated its payload, and then all three
\* fields are present.
C2_FailedValidationKeepsModel ==
    [][ /\ outcome' = "validation_failure" => session' = session
        /\ session' # session =>
              /\ outcome' = "stored"
              /\ DOMAIN session' = SessionKeys
              /\ ParseRaw(session'["wf_json"]).ok ]_vars

\* a Re-Render and a Generate Workflow that fail validation over a stored model
C2_Witness ==
    /\ outcome = "validation_failure"
    /\ op = "rerender"
    /\ Has(session, "wf_json")
    /\ Len(session["stages"]) = MaxStages

\* text with an opening brace and a closing brace somewhere after it
HasBraceRegion(text) ==
    \E i, j \in 1..Len(text) : i < j /\ text[i] = LB /\ text[j] = RB

\* C3: when the response to Generate Workflow holds no brace-delimited
\* region, the run reports an extraction failure (not a validation failure),
\* shows the raw text, stops, and leaves wf_json, stages and tips unchanged.
C3_NoRegionIsExtractionFailure ==
    [][ (op' = "generate" /\ outcome' # "provider_error" /\ ~HasBraceRegion(raw')) =>
            /\ outcome' = "extraction_failure"
            /\ shown' = <<Error("AI did not return JSON"), Code(raw')>>
            /\ tail' = "skipped"
            /\ session' = session ]_vars

\* an extraction failure on a response with stray braces, over a stored model
C3_Witness ==
    /\ outcome = "extraction_failure"
    /\ raw = <<RB, PROSE, LB>>
    /\ Has(session, "wf_json")
    /\ Len(session["stages"]) >= 1

\* C4: a payload with zero stages is never stored: whenever 'stages' is
\* present it is non-empty.
C4_StagesNeverEmpty ==
    Has(session, "stages") => Len(session["stages"]) >= 1

\* C5: the CRM batch survives a failing provider call: no exception leaves
\* the loop, and the playbook shown has one entry per input row in row order.
C5_BatchSurvivesRowFailure ==
    /\ crm_status # "exception"
    /\ crm_status = "shown" =>
          /\ Len(playbook) = Len(crm_rows)
          /\ \A i \in 1..Len(crm_rows) : playbook[i].lead = crm_rows[i]

\* number of opening minus closing braces of text[i..j]
Balance(text, i, j) ==
    Cardinality({ k \in i..j : text[k] = LB }) - Cardinality({ k \in i..j : text[k] = RB })

\* end of the balanced region that opens at position i (0 when it never closes)
RegionEnd(text, i) ==
    LET ends == { j \in i..Len(text) : Balance(text, i, j) = 0 }
    IN  IF ends = {} THEN 0 ELSE Min(ends)

\* the leftmost top-level brace-delimited region of a text that has one
FirstRegion(text) ==
    LET i == Min(Positions(text, LB))
    IN  SubSeq(text, i, RegionEnd(text, i))

\* a text with a second top-level region after its first
SeveralRegions(text) ==
    /\ Positions(text, LB) # {}
    /\ LET e == RegionEnd(text, Min(Positions(text, LB)))
       IN  e > 0 /\ HasBraceRegion(SubSeq(text, e + 1, Len(text)))

\* C6: on a response with more than one top-level brace-delimited region the
\* extractor returns the first (leftmost) region only.
C6_ExtractsFirstRegion ==
    (op = "generate" /\ outcome # "provider_error" /\ SeveralRegions(raw)) =>
        match = FirstRegion(raw)

\* the value of the first alias present in d, else the default
FirstPresent(d, k1, k2, dflt) ==
    IF k1 \in DOMAIN d THEN d[k1] ELSE IF k2 \in DOMAIN d THEN d[k2] ELSE dflt

\* C7: mapping-shaped pricing yields one line item per entry in mapping
\* order; each field is the value of the first alias present (also a 0), a
\* missing quantity is 1, a missing price is 0, and no entry is dropped.
C7_FirstPresentAlias ==
    (prop_status # "parsed" /\ prop_status # "idle" /\ pricing_in.shape = "mapping") =>
        LET es == pricing_in.entries
        IN  /\ Len(pricing) = Len(es)
            /\ \A i \in 1..Len(es) :
                  /\ pricing[i]["item"] = es[i].item
                  /\ es[i].isdict =>
                        /\ pricing[i]["qty"] = FirstPresent(es[i].details, "qty", "Qty", 1)
                        /\ pricing[i]["unit"] = FirstPresent(es[i].details, "unit", "Unit", "")
                        /\ pricing[i]["price"] =
                              FirstPresent(es[i].details, "price", "Unit Price", 0)

CanonicalKeys == { "qty", "unit", "price" }

\* the list-shaped payload equivalent to a mapping whose details use the
\* canonical field names
RECURSIVE EquivalentList(_)
EquivalentList(es) ==
    IF es = <<>> THEN <<>>
    ELSE <<("item" :> Head(es).item) @@ Head(es).details>> \o EquivalentList(Tail(es))

\* C8: a pricing mapping and the equivalent list normalize to the same line
\* items, each with item, qty, unit, price and subtotal = qty x price, and the
\* renderers never meet a missing field.
C8_CanonicalLineItems ==
    (prop_status # "parsed" /\ prop_status # "idle") =>
        /\ prop_status = "rendered"
        /\ \A i \in 1..Len(pricing) :
              /\ DOMAIN pricing[i] = { "item", "qty", "unit", "price", "subtotal" }
              /\ pricing[i]["subtotal"] = pricing[i]["qty"] * pricing[i]["price"]
        /\ ( /\ pricing_in.shape = "mapping"
             /\ \A i \in 1..Len(pricing_in.entries) :
                   /\ pricing_in.entries[i].isdict
                   /\ DOMAIN pricing_in.entries[i].details \subseteq CanonicalKeys ) =>
              pricing = NormalizePricing([shape |-> "list",
                                          entries |-> EquivalentList(pricing_in.entries)])

\* C9: every add_text returns a cursor within [60, h - 40], and no line of
\* the PDF export is drawn below the threshold 60.
C9_NoLineBelowThreshold ==
    /\ ret_ok
    /\ low_draw >= Threshold

\* C10: after any sequence of runs the session fields are all absent or all
\* present, 'stages' is the name list of the model that validating 'wf_json'
\* yields, every stage name is a key of 'tips', the deck's tip lookup never
\* fails, and a deck that was built has a title slide and one slide per stage
\* in stage order.
C10_SessionConsistent ==
    /\ DOMAIN session \in { {}, SessionKeys }
    /\ Has(session, "wf_json") =>
          /\ StoredModel.ok
          /\ session["stages"] = StageNames(StoredModel.workflow)
          /\ \A i \in 1..Len(session["stages"]) :
                session["stages"][i] \in DOMAIN session["tips"]
    /\ tail # "key_error"
    /\ (tail = "rendered" /\ pptx_ok /\ Has(session, "stages")) =>
          /\ Len(deck) = 1 + Len(session["stages"])
          /\ deck[1] = TitleSlide
          /\ \A i \in 1..Len(session["stages"]) :
                /\ deck[i + 1].title = session["stages"][i]
                /\ deck[i + 1].body = session["tips"][session["stages"][i]]

\* a deck of two stage slides built in a run whose Re-Render stored a model
\* with other stage names than the one before
C10_Witness ==
    /\ op = "rerender"
    /\ outcome = "stored"
    /\ Has(session, "stages")
    /\ session["stages"] = <<"b", "a">>
    /\ Len(deck) = 3

====
